---- MODULE Spec2Model ----
(***************************************************************************)
(* waila-cli: src/main.rs.  One invocation of the command line tool: the   *)
(* unit token is resolved, the query is handed to the external parser      *)
(* (bitcoin_waila::PaymentParams::from_str), the parsed variant is mapped  *)
(* to a kind tag, the nine optional fields are projected into a            *)
(* serde_json map (build / build_sparse), the optional nostr entry is      *)
(* added (parse_nostr), and the map is serialized and printed.             *)
(*                                                                         *)
(* External collaborators (the parser, the accessors of PaymentParams,     *)
(* nip19 bech32 encoding, serde_json serialization) are modelled at their  *)
(* interface: every outcome their result type allows is a nondeterministic *)
(* choice.  An Option<T> is the empty set (None) or a singleton (Some).    *)
(***************************************************************************)
EXTENDS Integers, Sequences, FiniteSets

VARIABLES args, pc, unit, payment_params, kind, map, json_out, stdout, outcome,
          full, sparse

vars == <<args, pc, unit, payment_params, kind, map, json_out, stdout, outcome,
          full, sparse>>

(* ------------------------------ bounds -------------------------------- *)

\* Largest number of accessors, besides those of the variant's payload, that
\* return Some for one parsed value.
MaxPresent == 2

\* Longest unit token explored by the unit resolver specification.
MaxTokenLen == 4

(* ------------------------------ values -------------------------------- *)

None == {}

Some(x) == {x}

Unwrap(o) == CHOOSE x \in o : TRUE

\* serde_json::Value, as far as main.rs builds it.
Null == [t |-> "Null"]

String(s) == [t |-> "String", v |-> s]

Object(m) == [t |-> "Object", v |-> m]

\* serde_json::Map::new()
EmptyMap == [k \in {} |-> Null]

\* serde_json::Map::insert: sets the key, replacing a previous value.
Insert(m, key, value) ==
    [k \in (DOMAIN m) \cup {key} |-> IF k = key THEN value ELSE m[k]]

\* A unit token is the sequence of its characters.
Tok_btc == <<"b", "t", "c">>

Tok_mbtc == <<"m", "b", "t", "c">>

Tok_msat == <<"m", "s", "a", "t">>

Tok_sat == <<"s", "a", "t">>

Tok_BTC == <<"B", "T", "C">>

Tok_xyz == <<"x", "y", "z">>

(* --------------------------- unit resolver ---------------------------- *)

\* bitcoin::Denomination, the four values main.rs can select.
Denominations == {"Bitcoin", "MilliBitcoin", "Satoshi", "MilliSatoshi"}

\* ResolveUnit that compares the token without regard to case.
ResolveUnit_ignore_case(token) ==
    IF token \in {Tok_btc, Tok_BTC} THEN "Bitcoin"
    ELSE IF token = Tok_mbtc THEN "MilliBitcoin"
    ELSE IF token = Tok_msat THEN "MilliSatoshi"
    ELSE "Satoshi"

\* main.rs 93-98: match args.unit.as_str() { "btc" .. "mbtc" .. "msat" .. _ }
ResolveUnit(token) ==
    IF token = Tok_btc THEN "Bitcoin"
    ELSE IF token = Tok_mbtc THEN "MilliBitcoin"
    ELSE IF token = Tok_msat THEN "MilliSatoshi"
    ELSE "Satoshi"

(* -------------------------- amount rendering -------------------------- *)

RECURSIVE Pow10(_)
Pow10(n) == IF n = 0 THEN 1 ELSE 10 * Pow10(n - 1)

\* Number of decimal places a satoshi amount has in the denomination
\* (negative: the denomination is smaller than one satoshi).
Places(denom) ==
    CASE denom = "Bitcoin" -> 8
      [] denom = "MilliBitcoin" -> 5
      [] denom = "Satoshi" -> 0
      [] denom = "MilliSatoshi" -> -3

\* Display of bitcoin::Denomination.
DenomLabel(denom) ==
    CASE denom = "Bitcoin" -> "BTC"
      [] denom = "MilliBitcoin" -> "mBTC"
      [] denom = "Satoshi" -> "satoshi"
      [] denom = "MilliSatoshi" -> "msat"

\* Amount::from_sat(sat).to_string_with_denomination(denom): the text
\* "<whole>[.<frac>] <label>", kept as its parts (frac counted in units of
\* 10^-places of the denomination).
to_string_with_denomination(sat, denom) ==
    IF Places(denom) < 0
    THEN [whole |-> sat * Pow10(0 - Places(denom)), frac |-> 0, places |-> 0,
          label |-> DenomLabel(denom)]
    ELSE [whole |-> sat \div Pow10(Places(denom)),
          frac |-> sat % Pow10(Places(denom)),
          places |-> Places(denom),
          label |-> DenomLabel(denom)]

(* ------------------------- parsed payment values ---------------------- *)

\* The variants of bitcoin_waila::PaymentParams matched in main.rs 121-130.
Variants ==
    {"OnChain", "Bip21", "Bolt11", "Bolt12", "NodePubkey", "LnUrl",
     "LightningAddress", "Nostr"}

\* The nine Option-returning accessors read by build and build_sparse.
Accessors ==
    {"network", "address", "invoice", "node_pubkey", "amount", "memo", "lnurl",
     "lightning_address", "payjoin_endpoint"}

\* Satoshi amounts an amount() accessor may return.
AmountSats == {1, 1500000}

\* What the payload of a variant always answers: PaymentParams::OnChain and
\* ::Bip21 wrap an address (which carries its network), ::Bolt11 an invoice,
\* ::NodePubkey a key, ::LnUrl an lnurl, ::LightningAddress an address.
Payload(variant) ==
    CASE variant = "OnChain" -> {"network", "address"}
      [] variant = "Bip21" -> {"network", "address"}
      [] variant = "Bolt11" -> {"invoice"}
      [] variant = "Bolt12" -> {}
      [] variant = "NodePubkey" -> {"node_pubkey"}
      [] variant = "LnUrl" -> {"lnurl"}
      [] variant = "LightningAddress" -> {"lightning_address"}
      [] variant = "Nostr" -> {}

\* What nostr_pubkey() may return: nothing for the payment variants; for
\* ::Nostr the key, whose re-encoding in parse_nostr succeeds ("ok"), fails in
\* XOnlyPublicKey::from_str ("bad_key"), or fails in to_bech32 ("bad_bech32").
NostrKeys(variant) ==
    IF variant = "Nostr"
    THEN {Some([hex |-> "3bf0c63f", encodes |-> e]) :
             e \in {"ok", "bad_key", "bad_bech32"}}
    ELSE {None}

\* A parsed value as main.rs sees it: its variant and what each accessor
\* returns (the Display text of the value, or the amount in satoshi).
PaymentValue(variant, present, sat, key) ==
    [variant |-> variant,
     network |-> IF "network" \in present THEN Some("bitcoin") ELSE None,
     address |-> IF "address" \in present THEN Some("bc1qw508d6") ELSE None,
     invoice |-> IF "invoice" \in present THEN Some("lnbc1pvjluez") ELSE None,
     node_pubkey |-> IF "node_pubkey" \in present THEN Some("02eec7245d") ELSE None,
     amount |-> IF "amount" \in present THEN Some(sat) ELSE None,
     memo |-> IF "memo" \in present THEN Some("coffee") ELSE None,
     lnurl |-> IF "lnurl" \in present THEN Some("lnurl1dp68gurn") ELSE None,
     lightning_address |->
         IF "lightning_address" \in present THEN Some("user@example.com") ELSE None,
     payjoin_endpoint |->
         IF "payjoin_endpoint" \in present THEN Some("https://pj.example.com") ELSE None,
     nostr_pubkey |-> key]

\* Every value PaymentParams::from_str may return Ok with, within the
\* bounds: besides its payload, any MaxPresent of the other accessors answer.
PaymentValues ==
    UNION {{PaymentValue(v, Payload(v) \cup q, a, k) :
               q \in {x \in SUBSET (Accessors \ Payload(v)) :
                         Cardinality(x) <= MaxPresent},
               a \in AmountSats,
               k \in NostrKeys(v)} : v \in Variants}

(* ------------------------------ projection ---------------------------- *)

\* KindOf with the Bolt12 arm carrying the tag of the Bolt11 arm.
KindOf_offer_as_invoice(variant) ==
    CASE variant = "OnChain" -> "OnChain"
      [] variant = "Bip21" -> "UnifiedUri"
      [] variant = "Bolt11" -> "Invoice"
      [] variant = "Bolt12" -> "Invoice"
      [] variant = "NodePubkey" -> "PublicKey"
      [] variant = "LnUrl" -> "LnUrl"
      [] variant = "LightningAddress" -> "LnAddress"
      [] variant = "Nostr" -> "NostrValue"

\* main.rs 121-130: the kind tag of a parsed variant.
KindOf(variant) ==
    CASE variant = "OnChain" -> "OnChain"
      [] variant = "Bip21" -> "UnifiedUri"
      [] variant = "Bolt11" -> "Invoice"
      [] variant = "Bolt12" -> "Offer"
      [] variant = "NodePubkey" -> "PublicKey"
      [] variant = "LnUrl" -> "LnUrl"
      [] variant = "LightningAddress" -> "LnAddress"
      [] variant = "Nostr" -> "NostrValue"

\* build: `if let Some(x) = .. { Value::String(x.to_string()) } else { json!(null) }`
OrNull(opt) == IF opt # None THEN String(Unwrap(opt)) ELSE Null

\* build, the amount entry (main.rs 200-210).
AmountOrNull(opt, denom) ==
    IF opt # None
    THEN String(to_string_with_denomination(Unwrap(opt), denom))
    ELSE Null

\* build with the payjoin entry written the way build_sparse writes it.
build_payjoin_if_some(pp, m, denom) ==
    LET m1 == Insert(m, "network", OrNull(pp.network))
        m2 == Insert(m1, "address", OrNull(pp.address))
        m3 == Insert(m2, "invoice", OrNull(pp.invoice))
        m4 == Insert(m3, "pubkey", OrNull(pp.node_pubkey))
        m5 == Insert(m4, "amount", AmountOrNull(pp.amount, denom))
        m6 == Insert(m5, "memo", OrNull(pp.memo))
        m7 == Insert(m6, "lnurl", OrNull(pp.lnurl))
        m8 == Insert(m7, "lnaddr", OrNull(pp.lightning_address))
    IN  IF pp.payjoin_endpoint # None
        THEN Insert(m8, "payjoin", String(Unwrap(pp.payjoin_endpoint)))
        ELSE m8

\* main.rs 158-249: construct a json map with all keys.
build(pp, m, denom) ==
    LET m1 == Insert(m, "network", OrNull(pp.network))
        m2 == Insert(m1, "address", OrNull(pp.address))
        m3 == Insert(m2, "invoice", OrNull(pp.invoice))
        m4 == Insert(m3, "pubkey", OrNull(pp.node_pubkey))
        m5 == Insert(m4, "amount", AmountOrNull(pp.amount, denom))
        m6 == Insert(m5, "memo", OrNull(pp.memo))
        m7 == Insert(m6, "lnurl", OrNull(pp.lnurl))
        m8 == Insert(m7, "lnaddr", OrNull(pp.lightning_address))
        m9 == Insert(m8, "payjoin", OrNull(pp.payjoin_endpoint))
    IN  m9

\* build_sparse: `if let Some(x) = .. { map.insert(key, Value::String(..)) }`
InsertIfSome(m, key, opt) ==
    IF opt # None THEN Insert(m, key, String(Unwrap(opt))) ELSE m

\* build_sparse, the amount entry (main.rs 273-281).
InsertAmountIfSome(m, opt, denom) ==
    IF opt # None
    THEN Insert(m, "amount", String(to_string_with_denomination(Unwrap(opt), denom)))
    ELSE m

\* build_sparse whose second lnurl block reads the lightning address.
build_sparse_lnurl_from_lnaddr(pp, m, denom) ==
    LET m1 == InsertIfSome(m, "network", pp.network)
        m2 == InsertIfSome(m1, "address", pp.address)
        m3 == InsertIfSome(m2, "invoice", pp.invoice)
        m4 == InsertIfSome(m3, "pubkey", pp.node_pubkey)
        m5 == InsertAmountIfSome(m4, pp.amount, denom)
        m6 == InsertIfSome(m5, "memo", pp.memo)
        m7 == InsertIfSome(m6, "lnurl", pp.lnurl)
        m7b == InsertIfSome(m7, "lnurl", pp.lightning_address)
        m8 == InsertIfSome(m7b, "lnaddr", pp.lightning_address)
        m9 == InsertIfSome(m8, "payjoin", pp.payjoin_endpoint)
    IN  m9

\* build_sparse without the network block.
build_sparse_no_network(pp, m, denom) ==
    LET m2 == InsertIfSome(m, "address", pp.address)
        m3 == InsertIfSome(m2, "invoice", pp.invoice)
        m4 == InsertIfSome(m3, "pubkey", pp.node_pubkey)
        m5 == InsertAmountIfSome(m4, pp.amount, denom)
        m6 == InsertIfSome(m5, "memo", pp.memo)
        m7 == InsertIfSome(m6, "lnurl", pp.lnurl)
        m7b == InsertIfSome(m7, "lnurl", pp.lnurl)
        m8 == InsertIfSome(m7b, "lnaddr", pp.lightning_address)
        m9 == InsertIfSome(m8, "payjoin", pp.payjoin_endpoint)
    IN  m9

\* main.rs 251-304: construct a json map with non-null fields only.  The
\* lnurl accessor is read and inserted twice (287-293).
build_sparse(pp, m, denom) ==
    LET m1 == InsertIfSome(m, "network", pp.network)
        m2 == InsertIfSome(m1, "address", pp.address)
        m3 == InsertIfSome(m2, "invoice", pp.invoice)
        m4 == InsertIfSome(m3, "pubkey", pp.node_pubkey)
        m5 == InsertAmountIfSome(m4, pp.amount, denom)
        m6 == InsertIfSome(m5, "memo", pp.memo)
        m7 == InsertIfSome(m6, "lnurl", pp.lnurl)
        m7b == InsertIfSome(m7, "lnurl", pp.lnurl)
        m8 == InsertIfSome(m7b, "lnaddr", pp.lightning_address)
        m9 == InsertIfSome(m8, "payjoin", pp.payjoin_endpoint)
    IN  m9

\* parse_nostr that answers Ok(null) when to_bech32 fails.
parse_nostr_swallow(pp) ==
    IF pp.nostr_pubkey = None
    THEN [res |-> "Ok", value |-> Null]
    ELSE LET k == Unwrap(pp.nostr_pubkey)
         IN  IF k.encodes = "bad_key" THEN [res |-> "Panic", value |-> Null]
             ELSE IF k.encodes = "bad_bech32"
                  THEN [res |-> "Ok", value |-> Null]
                  ELSE [res |-> "Ok",
                        value |-> Object([hex |-> k.hex,
                                          bech32 |-> <<"npub", k.hex>>])]

\* main.rs 306-327: Ok(null) without a key; with a key, a panic if
\* XOnlyPublicKey::from_str fails (expect), Err(Error::Bech32) if to_bech32
\* fails (`?`), else Ok({hex, bech32}).
parse_nostr(pp) ==
    IF pp.nostr_pubkey = None
    THEN [res |-> "Ok", value |-> Null]
    ELSE LET k == Unwrap(pp.nostr_pubkey)
         IN  IF k.encodes = "bad_key" THEN [res |-> "Panic", value |-> Null]
             ELSE IF k.encodes = "bad_bech32"
                  THEN [res |-> "Err(Bech32)", value |-> Null]
                  ELSE [res |-> "Ok",
                        value |-> Object([hex |-> k.hex,
                                          bech32 |-> <<"npub", k.hex>>])]

(* ------------------------------- main --------------------------------- *)

\* Unit tokens given on the command line in the invocation specification.
MainTokens == {Tok_btc, Tok_mbtc, Tok_msat, Tok_sat, Tok_BTC, Tok_xyz}

\* The text both bail! calls print (main.rs 101 and 133).
Diagnostic == "not a bitcoin string"

\* A line written to standard output by println!.
MessageLine(text) == [what |-> "message", text |-> text, record |-> EmptyMap]

\* serde_json::to_string (flatten) or to_string_pretty of the map; the text
\* is kept as the layout and the map it renders.
to_string(m, flatten) ==
    [what |-> IF flatten THEN "compact" ELSE "pretty", text |-> "", record |-> m]

\* Args::parse(): the three flags and the unit token (default "sat").
ArgsSet ==
    [all : BOOLEAN, nostr : BOOLEAN, flatten : BOOLEAN, unit : MainTokens]

\* The state at entry of main, for the given arguments.
InitWith(a) ==
    /\ args = a
    /\ pc = "start"
    /\ unit = None
    /\ payment_params = None
    /\ kind = None
    /\ map = EmptyMap
    /\ json_out = None
    /\ stdout = <<>>
    /\ outcome = "running"
    /\ full = None
    /\ sparse = None

Init == \E a \in ArgsSet : InitWith(a)

\* bail! that exits with status 0.
bail_exit0(err) ==
    /\ stdout' = Append(stdout, MessageLine(err))
    /\ outcome' = "exit(0)"
    /\ pc' = "done"

\* bail!: println!(err); std::process::exit(1)  (main.rs 52-57)
bail(err) ==
    /\ stdout' = Append(stdout, MessageLine(err))
    /\ outcome' = "exit(1)"
    /\ pc' = "done"

\* main.rs 93-98
Start ==
    /\ pc = "start"
    /\ unit' = Some(ResolveUnit(args.unit))
    /\ pc' = "parse"
    /\ UNCHANGED <<args, payment_params, kind, map, json_out, stdout, outcome,
                   full, sparse>>

\* main.rs 100: PaymentParams::from_str(&s) returns Ok
ParseOk ==
    /\ pc = "parse"
    /\ \E pp \in PaymentValues : payment_params' = Some(pp)
    /\ pc' = "classify"
    /\ UNCHANGED <<args, unit, kind, map, json_out, stdout, outcome, full, sparse>>

\* main.rs 100-102: PaymentParams::from_str(&s) returns Err
ParseErr ==
    /\ pc = "parse"
    /\ bail(Diagnostic)
    /\ UNCHANGED <<args, unit, payment_params, kind, map, json_out, full, sparse>>

\* A use of Unsolicited that ignores whether --nostr was given.
Unsolicited_always(k, nostr) == k = "NostrValue"

\* main.rs 131: `kind == "NostrValue" && !args.nostr`
Unsolicited(k, nostr) == k = "NostrValue" /\ ~nostr

\* main.rs 118-134: a nostr value without --nostr is not exposed
ClassifyReject ==
    /\ pc = "classify"
    /\ LET k == KindOf(Unwrap(payment_params).variant)
       IN  /\ Unsolicited(k, args.nostr)
           /\ kind' = Some(k)
    /\ bail(Diagnostic)
    /\ UNCHANGED <<args, unit, payment_params, map, json_out, full, sparse>>

\* main.rs 118-135: the kind tag is the first entry of the map
ClassifyAccept ==
    /\ pc = "classify"
    /\ LET k == KindOf(Unwrap(payment_params).variant)
       IN  /\ ~Unsolicited(k, args.nostr)
           /\ kind' = Some(k)
           /\ map' = Insert(EmptyMap, "kind", String(k))
    /\ pc' = "project"
    /\ UNCHANGED <<args, unit, payment_params, json_out, stdout, outcome, full,
                   sparse>>

\* main.rs 137-138
ProjectFull ==
    /\ pc = "project"
    /\ args.all
    /\ map' = build(Unwrap(payment_params), map, Unwrap(unit))
    /\ pc' = "nostr"
    /\ UNCHANGED <<args, unit, payment_params, kind, json_out, stdout, outcome,
                   full, sparse>>

\* main.rs 139-141
ProjectSparse ==
    /\ pc = "project"
    /\ ~args.all
    /\ map' = build_sparse(Unwrap(payment_params), map, Unwrap(unit))
    /\ pc' = "nostr"
    /\ UNCHANGED <<args, unit, payment_params, kind, json_out, stdout, outcome,
                   full, sparse>>

\* main.rs 143: --nostr not given
NostrSkip ==
    /\ pc = "nostr"
    /\ ~args.nostr
    /\ pc' = "serialize"
    /\ UNCHANGED <<args, unit, payment_params, kind, map, json_out, stdout,
                   outcome, full, sparse>>

\* NostrInsert that leaves a null nostr entry out of a sparse record.
NostrInsert_sparse_skips_null ==
    /\ pc = "nostr"
    /\ args.nostr
    /\ parse_nostr(Unwrap(payment_params)).res = "Ok"
    /\ map' = IF ~args.all /\ parse_nostr(Unwrap(payment_params)).value = Null
              THEN map
              ELSE Insert(map, "nostr", parse_nostr(Unwrap(payment_params)).value)
    /\ pc' = "serialize"
    /\ UNCHANGED <<args, unit, payment_params, kind, json_out, stdout, outcome,
                   full, sparse>>

\* main.rs 143-145: parse_nostr returned Ok
NostrInsert ==
    /\ pc = "nostr"
    /\ args.nostr
    /\ parse_nostr(Unwrap(payment_params)).res = "Ok"
    /\ map' = Insert(map, "nostr", parse_nostr(Unwrap(payment_params)).value)
    /\ pc' = "serialize"
    /\ UNCHANGED <<args, unit, payment_params, kind, json_out, stdout, outcome,
                   full, sparse>>

\* NostrErr that prints the map built so far before returning the error.
NostrErr_prints_map ==
    /\ pc = "nostr"
    /\ args.nostr
    /\ parse_nostr(Unwrap(payment_params)).res = "Err(Bech32)"
    /\ stdout' = Append(stdout, to_string(map, args.flatten))
    /\ outcome' = "Err(Bech32)"
    /\ pc' = "done"
    /\ UNCHANGED <<args, unit, payment_params, kind, map, json_out, full, sparse>>

\* main.rs 144: `?` returns Err(Error::Bech32) from main
NostrErr ==
    /\ pc = "nostr"
    /\ args.nostr
    /\ parse_nostr(Unwrap(payment_params)).res = "Err(Bech32)"
    /\ outcome' = "Err(Bech32)"
    /\ pc' = "done"
    /\ UNCHANGED <<args, unit, payment_params, kind, map, json_out, stdout, full,
                   sparse>>

\* main.rs 317: expect("same value") panics
NostrPanic ==
    /\ pc = "nostr"
    /\ args.nostr
    /\ parse_nostr(Unwrap(payment_params)).res = "Panic"
    /\ outcome' = "panic"
    /\ pc' = "done"
    /\ UNCHANGED <<args, unit, payment_params, kind, map, json_out, stdout, full,
                   sparse>>

\* main.rs 147-151: serialization returned Ok
SerializeOk ==
    /\ pc = "serialize"
    /\ json_out' = Some(to_string(map, args.flatten))
    /\ pc' = "print"
    /\ UNCHANGED <<args, unit, payment_params, kind, map, stdout, outcome, full,
                   sparse>>

\* main.rs 147-151: `?` returns Err(Error::Serialize) from main
SerializeErr ==
    /\ pc = "serialize"
    /\ outcome' = "Err(Serialize)"
    /\ pc' = "done"
    /\ UNCHANGED <<args, unit, payment_params, kind, map, json_out, stdout, full,
                   sparse>>

\* main.rs 153-155
PrintJson ==
    /\ pc = "print"
    /\ stdout' = Append(stdout, Unwrap(json_out))
    /\ outcome' = "Ok"
    /\ pc' = "done"
    /\ UNCHANGED <<args, unit, payment_params, kind, map, json_out, full, sparse>>

\* The shape of the state of one invocation.
TypeOK ==
    /\ args.all \in BOOLEAN /\ args.nostr \in BOOLEAN /\ args.flatten \in BOOLEAN
    /\ \A i \in 1..Len(args.unit) : args.unit[i] \in STRING
    /\ pc \in {"start", "parse", "classify", "project", "nostr", "serialize",
               "print", "done"}
    /\ unit \in {None} \cup {Some(d) : d \in Denominations}
    /\ payment_params = None \/ Unwrap(payment_params).variant \in Variants
    /\ kind \in {None} \cup {Some(KindOf(v)) : v \in Variants}
    /\ DOMAIN map \subseteq
           {"kind", "network", "address", "invoice", "pubkey", "amount", "memo",
            "lnurl", "lnaddr", "payjoin", "nostr"}
    /\ json_out = None \/ Unwrap(json_out).what \in {"compact", "pretty"}
    /\ Len(stdout) \in {0, 1}
    /\ outcome \in {"running", "Ok", "exit(1)", "Err(Bech32)", "Err(Serialize)",
                    "panic"}

Next ==
    \/ Start
    \/ ParseOk
    \/ ParseErr
    \/ ClassifyReject
    \/ ClassifyAccept
    \/ ProjectFull
    \/ ProjectSparse
    \/ NostrSkip
    \/ NostrInsert
    \/ NostrErr
    \/ NostrPanic
    \/ SerializeOk
    \/ SerializeErr
    \/ PrintJson

Spec == Init /\ [][Next]_vars

(* ----------------- the unit resolver on arbitrary tokens --------------- *)

\* Characters unit tokens are built from.
Alphabet == {"b", "t", "c", "m", "s", "a", "B", "T", "C", "x", "y", "z"}

\* Every token of at most MaxTokenLen characters.
Tokens == UNION {[1..n -> Alphabet] : n \in 0..MaxTokenLen}

InitUnit ==
    \E t \in Tokens :
        InitWith([all |-> FALSE, nostr |-> FALSE, flatten |-> FALSE, unit |-> t])

NextUnit == Start

SpecUnit == InitUnit /\ [][NextUnit]_vars

(* ------------- both projections applied to the same input ------------- *)

\* The state once a value is classified (main.rs 135), for any parsed value,
\* any denomination and both shape selectors.
InitBuild ==
    \E pp \in PaymentValues, d \in Denominations, a \in BOOLEAN :
        /\ args = [all |-> a, nostr |-> TRUE, flatten |-> FALSE, unit |-> Tok_sat]
        /\ pc = "project"
        /\ unit = Some(d)
        /\ payment_params = Some(pp)
        /\ kind = Some(KindOf(pp.variant))
        /\ map = Insert(EmptyMap, "kind", String(KindOf(pp.variant)))
        /\ json_out = None
        /\ stdout = <<>>
        /\ outcome = "running"
        /\ full = None
        /\ sparse = None

\* build applied to the classified value (main.rs 138)
BuildFull ==
    /\ pc = "project"
    /\ full = None
    /\ full' = Some(build(Unwrap(payment_params), map, Unwrap(unit)))
    /\ UNCHANGED <<args, pc, unit, payment_params, kind, map, json_out, stdout,
                   outcome, sparse>>

\* build_sparse applied to the classified value (main.rs 140)
BuildSparse ==
    /\ pc = "project"
    /\ sparse = None
    /\ sparse' = Some(build_sparse(Unwrap(payment_params), map, Unwrap(unit)))
    /\ UNCHANGED <<args, pc, unit, payment_params, kind, map, json_out, stdout,
                   outcome, full>>

NextBuild == BuildFull \/ BuildSparse

SpecBuild == InitBuild /\ [][NextBuild]_vars

(* ------------------------------ properties ---------------------------- *)

\* The nine field keys of the output record (main.rs 104-117, without kind
\* and nostr).
FieldKeys ==
    {"network", "address", "invoice", "pubkey", "amount", "memo", "lnurl",
     "lnaddr", "payjoin"}

\* The accessor whose result build and build_sparse store under a key.
AccessorOf(pp, key) ==
    CASE key = "network" -> pp.network
      [] key = "address" -> pp.address
      [] key = "invoice" -> pp.invoice
      [] key = "pubkey" -> pp.node_pubkey
      [] key = "amount" -> pp.amount
      [] key = "memo" -> pp.memo
      [] key = "lnurl" -> pp.lnurl
      [] key = "lnaddr" -> pp.lightning_address
      [] key = "payjoin" -> pp.payjoin_endpoint

\* The records written to standard output so far.
Records ==
    {stdout[i].record : i \in {j \in 1..Len(stdout) : stdout[j].what # "message"}}

\* The diagnostics written to standard output so far.
Messages ==
    {stdout[i].text : i \in {j \in 1..Len(stdout) : stdout[j].what = "message"}}

\* C1: for every parsed value and every unit, the sparse record is the full
\* record without its null entries: a key is in the sparse record exactly
\* when its value in the full record is not null, and on those keys (lnurl,
\* inserted twice by build_sparse, included) both records hold the same value.
C1_SparseIsFullWithoutNulls ==
    (full # None /\ sparse # None) =>
        LET f == Unwrap(full)
            sp == Unwrap(sparse)
        IN  /\ DOMAIN sp = {k \in DOMAIN f : f[k] # Null}
            /\ \A k \in DOMAIN sp : sp[k] = f[k]

\* Both projections were applied to a value with an lnurl and an amount and
\* without a memo.
C1_Witness ==
    /\ full # None
    /\ sparse # None
    /\ "lnurl" \in DOMAIN Unwrap(sparse)
    /\ "amount" \in DOMAIN Unwrap(sparse)
    /\ "memo" \notin DOMAIN Unwrap(sparse)
    /\ Unwrap(full)["memo"] = Null

\* C2: with --all, every record written holds kind and all nine field keys,
\* whatever the variant; a field is null exactly when its accessor returned
\* None.
C2_FullRecordHasEveryKey ==
    args.all =>
        \A r \in Records :
            /\ FieldKeys \cup {"kind"} \subseteq DOMAIN r
            /\ \A k \in FieldKeys :
                   (AccessorOf(Unwrap(payment_params), k) = None) <=> (r[k] = Null)

\* A full record was written for an LNURL value that has an lnurl and no
\* address.
C2_Witness ==
    /\ args.all
    /\ \E r \in Records :
           /\ r["kind"] = String("LnUrl")
           /\ r["lnurl"] # Null
           /\ r["address"] = Null

\* C3 as stated: when the parser rejects the query, whatever the options,
\* the diagnostic "not a known bitcoin string" is written, no record is
\* written, and the process exits unsuccessfully.
C3_Original ==
    (pc = "done" /\ payment_params = None) =>
        /\ Messages = {"not a known bitcoin string"}
        /\ Records = {}
        /\ outcome = "exit(1)"

\* C3 amended: when the parser rejects the query, whatever the options, the
\* one line written is the diagnostic "not a bitcoin string", no record is
\* written, and the process exits with status 1.
C3_ParseFailureBails ==
    (pc = "done" /\ payment_params = None) =>
        /\ Len(stdout) = 1
        /\ Messages = {"not a bitcoin string"}
        /\ Records = {}
        /\ outcome = "exit(1)"

\* The parser rejected the query of an invocation given --all and --nostr.
C3_Witness ==
    /\ pc = "done"
    /\ payment_params = None
    /\ args.all
    /\ args.nostr
    /\ stdout # <<>>

\* The record has its kind, every field whose accessor returned a value, all
\* nine fields under --all, and the nostr entry under --nostr.
Complete(r) ==
    /\ "kind" \in DOMAIN r
    /\ \A k \in FieldKeys :
           AccessorOf(Unwrap(payment_params), k) # None =>
               (k \in DOMAIN r /\ r[k] # Null)
    /\ args.all => FieldKeys \subseteq DOMAIN r
    /\ args.nostr => "nostr" \in DOMAIN r

\* C4: a failure (parse failure, nostr encoding failure, serialization
\* failure) means no record is written; a record is written only after
\* classification, projection, nostr encoding and serialization succeeded, so
\* an invocation writes one complete record or fails, never both.
C4_RecordOrFailure ==
    /\ Len(stdout) <= 1
    /\ outcome \in {"exit(1)", "Err(Bech32)", "Err(Serialize)", "panic"} =>
           Records = {}
    /\ outcome = "running" => stdout = <<>>
    /\ outcome = "Ok" => (Cardinality(Records) = 1 /\ Messages = {})
    /\ \A r \in Records :
           /\ outcome = "Ok"
           /\ kind # None
           /\ json_out # None
           /\ Unwrap(json_out).record = r
           /\ r = map
           /\ Complete(r)

\* The nostr encoding failed after the kind and the fields were stored in the
\* map, and nothing was written.
C4_Witness ==
    /\ outcome = "Err(Bech32)"
    /\ args.all
    /\ FieldKeys \cup {"kind"} \subseteq DOMAIN map
    /\ stdout = <<>>

\* C5: a NostrValue without --nostr ends like a parse failure (the same
\* diagnostic, no record, no kind entry, exit status 1); with --nostr the same
\* value is never rejected and the record written has kind "NostrValue".
C5_NostrGate ==
    LET nostrValue ==
            payment_params # None /\ Unwrap(payment_params).variant = "Nostr"
    IN  /\ Messages \subseteq {"not a bitcoin string"}
        /\ (pc = "done" /\ payment_params = None) => Messages # {}
        /\ (nostrValue /\ ~args.nostr /\ pc # "classify") =>
               /\ pc = "done"
               /\ outcome = "exit(1)"
               /\ Len(stdout) = 1
               /\ Messages = {"not a bitcoin string"}
               /\ Records = {}
               /\ "kind" \notin DOMAIN map
        /\ (nostrValue /\ args.nostr) =>
               /\ outcome # "exit(1)"
               /\ Messages = {}
               /\ pc # "classify" => map["kind"] = String("NostrValue")
               /\ outcome = "Ok" =>
                      /\ Records # {}
                      /\ \A r \in Records : r["kind"] = String("NostrValue")

\* A nostr value was rejected because --nostr was not given.
C5_Witness ==
    /\ pc = "done"
    /\ payment_params # None
    /\ Unwrap(payment_params).variant = "Nostr"
    /\ ~args.nostr
    /\ outcome = "exit(1)"

\* C6: a record written has the key nostr exactly when --nostr was given,
\* whatever the shape: an object {hex, bech32} when the parsed value has a
\* nostr key, null otherwise (in sparse shape too); without --nostr the key is
\* absent (in full shape too).
C6_NostrKey ==
    \A r \in Records :
        /\ ("nostr" \in DOMAIN r) <=> args.nostr
        /\ args.nostr =>
               IF Unwrap(payment_params).nostr_pubkey # None
               THEN /\ r["nostr"].t = "Object"
                    /\ DOMAIN r["nostr"].v = {"hex", "bech32"}
               ELSE r["nostr"] = Null

\* A sparse record was written with an explicit null nostr entry.
C6_Witness ==
    /\ ~args.all
    /\ args.nostr
    /\ \E r \in Records : r["nostr"] = Null

KindTags ==
    {<<"OnChain", "OnChain">>, <<"Bip21", "UnifiedUri">>, <<"Bolt11", "Invoice">>,
     <<"Bolt12", "Offer">>, <<"NodePubkey", "PublicKey">>, <<"LnUrl", "LnUrl">>,
     <<"LightningAddress", "LnAddress">>, <<"Nostr", "NostrValue">>}

\* C8: the mapping from parser variants to kind tags is total and one-to-one
\* with the listed tags; a record written carries the tag of the parsed
\* variant under kind, the projection and the later steps never change or
\* remove it, and a rejected input gets no tag.
C8_KindTag ==
    /\ {p[1] : p \in KindTags} = Variants
    /\ \A p \in KindTags : KindOf(p[1]) = p[2]
    /\ \A v, w \in Variants : KindOf(v) = KindOf(w) => v = w
    /\ payment_params = None =>
           (kind = None /\ "kind" \notin DOMAIN map /\ Records = {})
    /\ payment_params # None =>
           \E p \in KindTags :
               /\ p[1] = Unwrap(payment_params).variant
               /\ kind \in {None, Some(p[2])}
               /\ pc \in {"project", "nostr", "serialize", "print"} =>
                      ("kind" \in DOMAIN map /\ map["kind"] = String(p[2]))
               /\ "kind" \in DOMAIN map => map["kind"] = String(p[2])
               /\ \A r \in Records :
                      "kind" \in DOMAIN r /\ r["kind"] = String(p[2])

\* A record with kind "Offer" was written for a Bolt12 value.
C8_Witness ==
    /\ payment_params # None
    /\ Unwrap(payment_params).variant = "Bolt12"
    /\ \E r \in Records : r["kind"] = String("Offer")

\* C9: the unit resolver never fails: "btc" gives Bitcoin, "mbtc"
\* MilliBitcoin, "msat" MilliSatoshi, and every other token ("sat", "BTC",
\* "xyz", ...) gives Satoshi.
C9_UnitResolver ==
    /\ unit # None => (pc # "start" /\ Unwrap(unit) \in Denominations)
    /\ pc # "start" =>
           /\ outcome = "running"
           /\ unit # None
           /\ (unit = Some("Bitcoin")) <=> (args.unit = <<"b", "t", "c">>)
           /\ (unit = Some("MilliBitcoin")) <=> (args.unit = <<"m", "b", "t", "c">>)
           /\ (unit = Some("MilliSatoshi")) <=> (args.unit = <<"m", "s", "a", "t">>)
           /\ (unit = Some("Satoshi")) <=>
                  (args.unit \notin {<<"b", "t", "c">>, <<"m", "b", "t", "c">>,
                                     <<"m", "s", "a", "t">>})

\* The token "BTC" was resolved to Satoshi.
C9_Witness ==
    /\ pc = "parse"
    /\ args.unit = <<"B", "T", "C">>
    /\ unit = Some("Satoshi")

====
